---------------------------- MODULE Spec2Model ----------------------------
(***************************************************************************)
(* Model of the SGP30 driver (src/src/lib.rs): the Sgp30 handle with its   *)
(* `initialized` flag, the I2C transport and the delay provider it owns,   *)
(* and one action per public method.  Every method runs to completion      *)
(* (single-threaded, blocking), so one call is one step.  The transport    *)
(* is the environment: each write or read either fails with one of the     *)
(* transport's error values or succeeds, and a successful read fills the   *)
(* buffer with bytes the sensor chose.                                     *)
(***************************************************************************)
EXTENDS Integers, Sequences, FiniteSets, TLC

VARIABLES
    initialized,  \* Sgp30.initialized
    calls,        \* the calls made on the handle since new(): <<[op, tag, writes]>>
    arg,          \* the argument of the last call (set_baseline, set_humidity)
    pre,          \* the value of `initialized` when the last call started
    trace,        \* the transport and delay events of the last call, in order
    result        \* what the last call returned

vars == <<initialized, calls, arg, pre, trace, result>>

\* ---------------------------------------------------------------- bounds

\* The number of calls made on one handle before it is dropped.
MaxCalls == 2

\* The error values E of the I2C implementation.
Errors == {"Nack", "BusBusy"}

\* The data words (two bytes) the sensor may answer with.
DataWords == { <<18, 52>>,     \* 0x12 0x34
               <<212, 0>> }    \* 0xD4 0x00

\* The 16-bit values a caller passes in a Baseline.
Words16 == {4660, 22136}       \* 0x1234, 0x5678

NoArg == [kind |-> "none"]

\* ------------------------------------------------------------ bit helpers

RECURSIVE BitXor(_, _)
\* The ^ operator of lib.rs:616 and :619 on unsigned bytes.
BitXor(a, b) ==
    IF a = 0 THEN b
    ELSE IF b = 0 THEN a
    ELSE (((a % 2) + (b % 2)) % 2) + 2 * BitXor(a \div 2, b \div 2)

\* const CRC8_POLYNOMIAL: u8 = 0x31
CRC8_POLYNOMIAL == 49

\* One round of the inner loop of crc8: crc is a u8, << drops the top bit.
crc8_round(crc) ==
    IF (crc \div 128) % 2 = 1
    THEN BitXor((crc * 2) % 256, CRC8_POLYNOMIAL)
    ELSE (crc * 2) % 256

RECURSIVE crc8_rounds(_, _)
\* for _ in 0..8 { ... }
crc8_rounds(crc, n) ==
    IF n = 0 THEN crc ELSE crc8_rounds(crc8_round(crc), n - 1)

\* What the inner loop makes of each value of crc after `crc ^= byte`.
crc8_byte == [x \in 0..255 |-> crc8_rounds(x, 8)]

RECURSIVE crc8_from(_, _, _)
\* for byte in data { crc ^= byte; ... }, from position i on
crc8_from(crc, data, i) ==
    IF i > Len(data) THEN crc
    ELSE crc8_from(crc8_byte[BitXor(crc, data[i])], data, i + 1)

\* crc8 starting from a register of 0x00.
crc8_zero_init(data) == crc8_from(0, data, 1)

\* fn crc8(data: &[u8]) -> u8
crc8(data) == crc8_from(255, data, 1)

\* ------------------------------------------------------- transport events

\* i2c.write(address, bytes): the bytes offered, and the error the transport
\* answered with ("none": the write was accepted).
WriteEv(bytes, err) ==
    [kind |-> "write", bytes |-> bytes, n |-> Len(bytes),
     ok |-> (err = "none"), err |-> err]

\* delay.delay_us(n) and delay.delay_ms(n): blocking, cannot fail.
DelayUsEv(n) ==
    [kind |-> "delay_us", bytes |-> <<>>, n |-> n, ok |-> TRUE, err |-> "none"]

DelayMsEv(n) ==
    [kind |-> "delay_ms", bytes |-> <<>>, n |-> n, ok |-> TRUE, err |-> "none"]

\* i2c.read(address, buf) on a buffer of n bytes: the bytes it was filled
\* with, and the error the transport answered with ("none": the read was done).
ReadEv(n, bytes, err) ==
    [kind |-> "read", bytes |-> bytes, n |-> n,
     ok |-> (err = "none"), err |-> err]

\* A group as it comes off the wire: a data word and a checksum byte that is
\* either the right one or a corrupted one.
WireGroups ==
    UNION { { <<w[1], w[2], c>> : c \in {crc8(w), (crc8(w) + 1) % 256} }
            : w \in DataWords }

RECURSIVE Buffers(_)
\* The contents a successful read may leave in a buffer of n bytes.
Buffers(n) ==
    IF n = 0 THEN { <<>> }
    ELSE { g \o rest : g \in WireGroups, rest \in Buffers(n - 3) }

\* What the transport does with a read of n bytes: fail, or fill the buffer.
ReadOutcomes(n) ==
    [err : Errors, data : { <<>> }] \cup [err : {"none"}, data : Buffers(n)]

\* No read is asked of the transport.
NoRead == [err |-> "none", data |-> <<>>]

\* What the transport does during one call that writes once and then reads n
\* bytes (n = 0: a call that only writes): the write fails and no read is
\* asked of it, or the write is accepted and the read has one of its outcomes.
Transport(n) ==
    [w : Errors, r : {NoRead}]
        \cup [w : {"ok"}, r : IF n = 0 THEN {NoRead} ELSE ReadOutcomes(n)]

\* ------------------------------------------------------------ Result<T, Error<E>>

Unit == <<>>
Ok(v) == [tag |-> "Ok", err |-> "none", val |-> v]
ErrI2c(e) == [tag |-> "I2c", err |-> e, val |-> Unit]
ErrCrc == [tag |-> "Crc", err |-> "none", val |-> Unit]
ErrNotInitialized == [tag |-> "NotInitialized", err |-> "none", val |-> Unit]

\* What a method leaves behind: the flag, the events it caused, its result.
Outcome(flag, events, res) ==
    [initialized |-> flag, trace |-> events, result |-> res]

\* ---------------------------------------------------------------- Command

Commands ==
    {"GetSerial", "SelfTest", "InitAirQuality", "MeasureAirQuality",
     "MeasureRawSignals", "GetBaseline", "SetBaseline", "SetHumidity",
     "GetFeatureSet"}

\* Command::as_bytes giving GetBaseline the code of SetBaseline.
as_bytes_duplicate(command) ==
    CASE command = "GetSerial"         -> <<54, 130>>
      [] command = "SelfTest"          -> <<32, 50>>
      [] command = "InitAirQuality"    -> <<32, 3>>
      [] command = "MeasureAirQuality" -> <<32, 8>>
      [] command = "MeasureRawSignals" -> <<32, 80>>
      [] command = "GetBaseline"       -> <<32, 30>>
      [] command = "SetBaseline"       -> <<32, 30>>
      [] command = "SetHumidity"       -> <<32, 97>>
      [] command = "GetFeatureSet"     -> <<32, 47>>

\* Command::as_bytes
as_bytes(command) ==
    CASE command = "GetSerial"         -> <<54, 130>>   \* 0x36 0x82
      [] command = "SelfTest"          -> <<32, 50>>    \* 0x20 0x32
      [] command = "InitAirQuality"    -> <<32, 3>>     \* 0x20 0x03
      [] command = "MeasureAirQuality" -> <<32, 8>>     \* 0x20 0x08
      [] command = "MeasureRawSignals" -> <<32, 80>>    \* 0x20 0x50
      [] command = "GetBaseline"       -> <<32, 21>>    \* 0x20 0x15
      [] command = "SetBaseline"       -> <<32, 30>>    \* 0x20 0x1E
      [] command = "SetHumidity"       -> <<32, 97>>    \* 0x20 0x61
      [] command = "GetFeatureSet"     -> <<32, 47>>    \* 0x20 0x2F

\* ------------------------------------------------------- private methods

\* A write through self.i2c.write(..).map_err(Error::I2c).
i2c_write(payload, w) ==
    [trace |-> << WriteEv(payload, IF w = "ok" THEN "none" ELSE w) >>,
     res   |-> IF w = "ok" THEN Ok(Unit) ELSE ErrI2c(w)]

\* fn send_command(&mut self, command: Command)
send_command(command, w) == i2c_write(as_bytes(command), w)

\* send_command_and_data writing the whole 8-byte buffer whatever the length
\* of the data.
send_command_and_data_whole_buf(command, data, w) ==
    IF ~(Len(data) = 2 \/ Len(data) = 4)
    THEN [trace |-> <<>>, res |-> [tag |-> "Panic", err |-> "none", val |-> Unit]]
    ELSE LET head == as_bytes(command) \o SubSeq(data, 1, 2)
                         \o << crc8(SubSeq(data, 1, 2)) >>
             buf  == IF Len(data) > 2
                     THEN head \o SubSeq(data, 3, 4) \o << crc8(SubSeq(data, 3, 4)) >>
                     ELSE head \o <<0, 0, 0>>
         IN  i2c_write(SubSeq(buf, 1, 8), w)

\* send_command_and_data without its assert!(): the slices data[0..2] and
\* data[2..4] still panic when the data is too short for them.
send_command_and_data_unasserted(command, data, w) ==
    IF Len(data) < 2 \/ Len(data) = 3
    THEN [trace |-> <<>>, res |-> [tag |-> "Panic", err |-> "none", val |-> Unit]]
    ELSE LET head == as_bytes(command) \o SubSeq(data, 1, 2)
                         \o << crc8(SubSeq(data, 1, 2)) >>
             buf  == IF Len(data) > 2
                     THEN head \o SubSeq(data, 3, 4) \o << crc8(SubSeq(data, 3, 4)) >>
                     ELSE head \o <<0, 0, 0>>
             payload == IF Len(data) > 2 THEN SubSeq(buf, 1, 8) ELSE SubSeq(buf, 1, 5)
         IN  i2c_write(payload, w)

\* send_command_and_data asserting a data length of 4 or 8.
send_command_and_data_long(command, data, w) ==
    IF ~(Len(data) = 4 \/ Len(data) = 8)
    THEN [trace |-> <<>>, res |-> [tag |-> "Panic", err |-> "none", val |-> Unit]]
    ELSE LET head == as_bytes(command) \o SubSeq(data, 1, 2)
                         \o << crc8(SubSeq(data, 1, 2)) >>
             buf  == IF Len(data) > 2
                     THEN head \o SubSeq(data, 3, 4) \o << crc8(SubSeq(data, 3, 4)) >>
                     ELSE head \o <<0, 0, 0>>
             payload == IF Len(data) > 2 THEN SubSeq(buf, 1, 8) ELSE SubSeq(buf, 1, 5)
         IN  i2c_write(payload, w)

\* fn send_command_and_data(&mut self, command: Command, data: &[u8])
\* The assert!() panics on any other length: no write, no result.
send_command_and_data(command, data, w) ==
    IF ~(Len(data) = 2 \/ Len(data) = 4)
    THEN [trace |-> <<>>, res |-> [tag |-> "Panic", err |-> "none", val |-> Unit]]
    ELSE LET head == as_bytes(command) \o SubSeq(data, 1, 2)
                         \o << crc8(SubSeq(data, 1, 2)) >>
             buf  == IF Len(data) > 2
                     THEN head \o SubSeq(data, 3, 4) \o << crc8(SubSeq(data, 3, 4)) >>
                     ELSE head \o <<0, 0, 0>>
             payload == IF Len(data) > 2 THEN SubSeq(buf, 1, 8) ELSE SubSeq(buf, 1, 5)
         IN  i2c_write(payload, w)

RECURSIVE validate_crc_inverted_from(_, _)
\* validate_crc failing the groups whose checksum is right (== for !=).
validate_crc_inverted_from(buf, i) ==
    IF i > Len(buf) THEN Ok(Unit)
    ELSE IF i + 2 <= Len(buf) /\ crc8(<<buf[i], buf[i + 1]>>) = buf[i + 2]
         THEN ErrCrc
         ELSE validate_crc_inverted_from(buf, i + 3)

validate_crc_inverted(buf) == validate_crc_inverted_from(buf, 1)

RECURSIVE validate_crc_strict_from(_, _)
\* validate_crc failing a trailing chunk of fewer than 3 bytes.
validate_crc_strict_from(buf, i) ==
    IF i > Len(buf) THEN Ok(Unit)
    ELSE IF i + 2 > Len(buf) \/ crc8(<<buf[i], buf[i + 1]>>) # buf[i + 2]
         THEN ErrCrc
         ELSE validate_crc_strict_from(buf, i + 3)

validate_crc_strict(buf) == validate_crc_strict_from(buf, 1)

RECURSIVE validate_crc_skip_last(_, _)
\* validate_crc stopping one group short of the end of the buffer.
validate_crc_skip_last(buf, i) ==
    IF i + 3 > Len(buf) THEN Ok(Unit)
    ELSE IF i + 2 <= Len(buf) /\ crc8(<<buf[i], buf[i + 1]>>) # buf[i + 2]
         THEN ErrCrc
         ELSE validate_crc_skip_last(buf, i + 3)

RECURSIVE validate_crc_from(_, _)
\* for chunk in buf.chunks(3), from position i on
validate_crc_from(buf, i) ==
    IF i > Len(buf) THEN Ok(Unit)
    ELSE IF i + 2 <= Len(buf) /\ crc8(<<buf[i], buf[i + 1]>>) # buf[i + 2]
         THEN ErrCrc
         ELSE validate_crc_from(buf, i + 3)

\* validate_crc looking at the first group only.
validate_crc_first_group(buf) ==
    IF Len(buf) >= 3 /\ crc8(<<buf[1], buf[2]>>) # buf[3] THEN ErrCrc
    ELSE Ok(Unit)

\* fn validate_crc(&self, buf: &[u8])
validate_crc(buf) == validate_crc_from(buf, 1)

\* read_with_crc without the `?` after the read: a failed read goes on to
\* validate the buffer, which still holds its zeroes.
read_with_crc_unchecked(n, r) ==
    IF r.err # "none"
    THEN [trace |-> << ReadEv(n, <<>>, r.err) >>,
          res |-> validate_crc([i \in 1..n |-> 0]),
          buf |-> [i \in 1..n |-> 0]]
    ELSE [trace |-> << ReadEv(n, r.data, "none") >>, res |-> validate_crc(r.data),
          buf |-> r.data]

\* fn read_with_crc(&mut self, buf: &mut [u8]), on a buffer of n bytes
read_with_crc(n, r) ==
    IF r.err # "none"
    THEN [trace |-> << ReadEv(n, <<>>, r.err) >>, res |-> ErrI2c(r.err),
          buf |-> [i \in 1..n |-> 0]]
    ELSE [trace |-> << ReadEv(n, r.data, "none") >>, res |-> validate_crc(r.data),
          buf |-> r.data]

\* (u16::from(hi) << 8) | u16::from(lo)
u16_from_be(hi, lo) == hi * 256 + lo

\* BigEndian::write_u16(&mut buf, v)
write_u16_be(v) == << (v \div 256) % 256, v % 256 >>

\* ------------------------------------------------------------- types.rs

\* The Humidity values a caller holds: an 8-bit integer part and an 8-bit
\* fractional part (15.5 g/m3 and 0.0 g/m3).
Humidities == { [integer |-> 15, fractional |-> 128],
                [integer |-> 0, fractional |-> 0] }

\* Humidity::as_bytes
Humidity_as_bytes(humi) == << humi.integer, humi.fractional >>

\* Humidity::from_f32(val) for a value given in 1/256 g/m3 (such a value is
\* exact in the 8.8 fixed-point form): 0.0 <= val < 256.0, else Err(()).
Humidity_from_value(q) ==
    IF q < 0 \/ q >= 256 * 256 THEN [tag |-> "Err"]
    ELSE [tag |-> "Ok",
          val |-> [integer |-> q \div 256, fractional |-> q % 256]]

\* FeatureSet::parse(msb, lsb): the product type is the high nibble of msb.
FeatureSet_parse(msb, lsb) ==
    [product_type    |-> IF msb \div 16 = 0
                         THEN [kind |-> "Sgp30", code |-> 0]
                         ELSE [kind |-> "Unknown", code |-> msb \div 16],
     product_version |-> lsb]

\* -------------------------------------------------------- public methods
\* Each takes the flag as the call finds it and what the transport will do
\* (w: the write, r: the read), and gives Outcome(flag, events, result).

\* The `?` after a step: leave with the step's error, the flag as it is.
Abort(self, events, res) == Outcome(self, events, res)

\* serial returning the first six bytes of the buffer, checksum bytes included.
serial_first_six(self, w, r) ==
    LET s == send_command("GetSerial", w) IN
    IF s.res.tag # "Ok" THEN Abort(self, s.trace, s.res)
    ELSE LET waited == s.trace \o << DelayUsEv(500) >>
             rd     == read_with_crc(9, r)
             buf    == rd.buf
         IN  IF rd.res.tag # "Ok" THEN Abort(self, waited \o rd.trace, rd.res)
             ELSE Outcome(self, waited \o rd.trace,
                          Ok(<<buf[1], buf[2], buf[3], buf[4], buf[5], buf[6]>>))

\* serial waiting 500 ms (delay_ms) where the code waits 500 us (delay_us).
serial_wait_ms(self, w, r) ==
    LET s == send_command("GetSerial", w) IN
    IF s.res.tag # "Ok" THEN Abort(self, s.trace, s.res)
    ELSE LET waited == s.trace \o << DelayMsEv(500) >>
             rd     == read_with_crc(9, r)
             buf    == rd.buf
         IN  IF rd.res.tag # "Ok" THEN Abort(self, waited \o rd.trace, rd.res)
             ELSE Outcome(self, waited \o rd.trace,
                          Ok(<<buf[1], buf[2], buf[4], buf[5], buf[7], buf[8]>>))

\* pub fn serial(&mut self) -> Result<[u8; 6], Error<E>>
serial(self, w, r) ==
    LET s == send_command("GetSerial", w) IN
    IF s.res.tag # "Ok" THEN Abort(self, s.trace, s.res)
    ELSE LET waited == s.trace \o << DelayUsEv(500) >>
             rd     == read_with_crc(9, r)
             buf    == rd.buf
         IN  IF rd.res.tag # "Ok" THEN Abort(self, waited \o rd.trace, rd.res)
             ELSE Outcome(self, waited \o rd.trace,
                          Ok(<<buf[1], buf[2], buf[4], buf[5], buf[7], buf[8]>>))

\* selftest comparing the first byte only with the success pattern.
selftest_first_byte(self, w, r) ==
    LET s == send_command("SelfTest", w) IN
    IF s.res.tag # "Ok" THEN Abort(self, s.trace, s.res)
    ELSE LET waited == s.trace \o << DelayMsEv(220) >>
             rd     == read_with_crc(3, r)
         IN  IF rd.res.tag # "Ok" THEN Abort(self, waited \o rd.trace, rd.res)
             ELSE Outcome(self, waited \o rd.trace, Ok(rd.buf[1] = 212))

\* pub fn selftest(&mut self) -> Result<bool, Error<E>>
selftest(self, w, r) ==
    LET s == send_command("SelfTest", w) IN
    IF s.res.tag # "Ok" THEN Abort(self, s.trace, s.res)
    ELSE LET waited == s.trace \o << DelayMsEv(220) >>
             rd     == read_with_crc(3, r)
         IN  IF rd.res.tag # "Ok" THEN Abort(self, waited \o rd.trace, rd.res)
             ELSE Outcome(self, waited \o rd.trace,
                          Ok(SubSeq(rd.buf, 1, 2) = <<212, 0>>))

\* force_init clearing the flag when its write is rejected.
force_init_rollback(self, w) ==
    LET s == send_command("InitAirQuality", w) IN
    IF s.res.tag # "Ok" THEN Abort(FALSE, s.trace, s.res)
    ELSE Outcome(TRUE, s.trace \o << DelayMsEv(10) >>, Ok(Unit))

\* force_init returning at once on a handle that is already initialized.
force_init_checked(self, w) ==
    IF self THEN Outcome(self, <<>>, Ok(Unit))
    ELSE LET s == send_command("InitAirQuality", w) IN
         IF s.res.tag # "Ok" THEN Abort(self, s.trace, s.res)
         ELSE Outcome(TRUE, s.trace \o << DelayMsEv(10) >>, Ok(Unit))

\* force_init setting the flag before it sends, so a rejected write leaves it set.
force_init_flag_first(self, w) ==
    LET s == send_command("InitAirQuality", w) IN
    IF s.res.tag # "Ok" THEN Abort(TRUE, s.trace, s.res)
    ELSE Outcome(TRUE, s.trace \o << DelayMsEv(10) >>, Ok(Unit))

\* pub fn force_init(&mut self) -> Result<(), Error<E>>
force_init(self, w) ==
    LET s == send_command("InitAirQuality", w) IN
    IF s.res.tag # "Ok" THEN Abort(self, s.trace, s.res)
    ELSE Outcome(TRUE, s.trace \o << DelayMsEv(10) >>, Ok(Unit))

\* init sending the command itself and leaving out the wait.
init_without_wait(self, w) ==
    IF self THEN Outcome(self, <<>>, Ok(Unit))
    ELSE LET s == send_command("InitAirQuality", w) IN
         IF s.res.tag # "Ok" THEN Abort(self, s.trace, s.res)
         ELSE Outcome(TRUE, s.trace, Ok(Unit))

\* init without its check of the flag.
init_unchecked(self, w) == force_init(self, w)

\* init recording the attempt as done whether or not the write was accepted.
init_marks_attempt(self, w) ==
    IF self THEN Outcome(self, <<>>, Ok(Unit))
    ELSE LET f == force_init(self, w)
         IN  Outcome(TRUE, f.trace, f.result)

\* pub fn init(&mut self) -> Result<(), Error<E>>
init(self, w) ==
    IF self THEN Outcome(self, <<>>, Ok(Unit))
    ELSE force_init(self, w)

\* measure forgetting the initialization when the response fails its check.
measure_clears_on_crc(self, w, r) ==
    IF ~self THEN Outcome(self, <<>>, ErrNotInitialized)
    ELSE
    LET s == send_command("MeasureAirQuality", w) IN
    IF s.res.tag # "Ok" THEN Abort(self, s.trace, s.res)
    ELSE LET waited == s.trace \o << DelayMsEv(12) >>
             rd     == read_with_crc(6, r)
             buf    == rd.buf
         IN  IF rd.res.tag # "Ok"
             THEN Abort(self /\ rd.res.tag # "Crc", waited \o rd.trace, rd.res)
             ELSE Outcome(self, waited \o rd.trace,
                          Ok([co2eq_ppm |-> u16_from_be(buf[1], buf[2]),
                              tvoc_ppb  |-> u16_from_be(buf[4], buf[5])]))

\* pub fn measure(&mut self) -> Result<Measurement, Error<E>>
measure(self, w, r) ==
    IF ~self THEN Outcome(self, <<>>, ErrNotInitialized)
    ELSE
    LET s == send_command("MeasureAirQuality", w) IN
    IF s.res.tag # "Ok" THEN Abort(self, s.trace, s.res)
    ELSE LET waited == s.trace \o << DelayMsEv(12) >>
             rd     == read_with_crc(6, r)
             buf    == rd.buf
         IN  IF rd.res.tag # "Ok" THEN Abort(self, waited \o rd.trace, rd.res)
             ELSE Outcome(self, waited \o rd.trace,
                          Ok([co2eq_ppm |-> u16_from_be(buf[1], buf[2]),
                              tvoc_ppb  |-> u16_from_be(buf[4], buf[5])]))

\* measure_raw_signals taking the ethanol signal from the checksum byte on.
measure_raw_signals_shifted(self, w, r) ==
    IF ~self THEN Outcome(self, <<>>, ErrNotInitialized)
    ELSE
    LET s == send_command("MeasureRawSignals", w) IN
    IF s.res.tag # "Ok" THEN Abort(self, s.trace, s.res)
    ELSE LET waited == s.trace \o << DelayMsEv(25) >>
             rd     == read_with_crc(6, r)
             buf    == rd.buf
         IN  IF rd.res.tag # "Ok" THEN Abort(self, waited \o rd.trace, rd.res)
             ELSE Outcome(self, waited \o rd.trace,
                          Ok([h2      |-> u16_from_be(buf[1], buf[2]),
                              ethanol |-> u16_from_be(buf[3], buf[4])]))

\* pub fn measure_raw_signals(&mut self) -> Result<RawSignals, Error<E>>
measure_raw_signals(self, w, r) ==
    IF ~self THEN Outcome(self, <<>>, ErrNotInitialized)
    ELSE
    LET s == send_command("MeasureRawSignals", w) IN
    IF s.res.tag # "Ok" THEN Abort(self, s.trace, s.res)
    ELSE LET waited == s.trace \o << DelayMsEv(25) >>
             rd     == read_with_crc(6, r)
             buf    == rd.buf
         IN  IF rd.res.tag # "Ok" THEN Abort(self, waited \o rd.trace, rd.res)
             ELSE Outcome(self, waited \o rd.trace,
                          Ok([h2      |-> u16_from_be(buf[1], buf[2]),
                              ethanol |-> u16_from_be(buf[4], buf[5])]))

\* pub fn get_baseline(&mut self) -> Result<Baseline, Error<E>>
get_baseline(self, w, r) ==
    LET s == send_command("GetBaseline", w) IN
    IF s.res.tag # "Ok" THEN Abort(self, s.trace, s.res)
    ELSE LET waited == s.trace \o << DelayMsEv(10) >>
             rd     == read_with_crc(6, r)
             buf    == rd.buf
         IN  IF rd.res.tag # "Ok" THEN Abort(self, waited \o rd.trace, rd.res)
             ELSE Outcome(self, waited \o rd.trace,
                          Ok([co2eq |-> u16_from_be(buf[1], buf[2]),
                              tvoc  |-> u16_from_be(buf[4], buf[5])]))

\* set_baseline writing the tvoc word before the co2eq word.
set_baseline_swapped(self, baseline, w) ==
    IF ~self THEN Outcome(self, <<>>, ErrNotInitialized)
    ELSE
    LET buf == write_u16_be(baseline.tvoc) \o write_u16_be(baseline.co2eq)
        s   == send_command_and_data("SetBaseline", buf, w)
    IN  IF s.res.tag # "Ok" THEN Abort(self, s.trace, s.res)
        ELSE Outcome(self, s.trace \o << DelayMsEv(10) >>, Ok(Unit))

\* pub fn set_baseline(&mut self, baseline: &Baseline) -> Result<(), Error<E>>
set_baseline(self, baseline, w) ==
    IF ~self THEN Outcome(self, <<>>, ErrNotInitialized)
    ELSE
    LET buf == write_u16_be(baseline.co2eq) \o write_u16_be(baseline.tvoc)
        s   == send_command_and_data("SetBaseline", buf, w)
    IN  IF s.res.tag # "Ok" THEN Abort(self, s.trace, s.res)
        ELSE Outcome(self, s.trace \o << DelayMsEv(10) >>, Ok(Unit))

\* set_humidity sending the sensor's default of 11.57 g/m3 for None.
set_humidity_default(self, humidity, w) ==
    IF ~self THEN Outcome(self, <<>>, ErrNotInitialized)
    ELSE
    LET buf == IF humidity.kind = "Some" THEN Humidity_as_bytes(humidity.humi)
               ELSE <<11, 146>>
        s   == send_command_and_data("SetHumidity", buf, w)
    IN  IF s.res.tag # "Ok" THEN Abort(self, s.trace, s.res)
        ELSE Outcome(self, s.trace \o << DelayMsEv(10) >>, Ok(Unit))

\* set_humidity without its check of the flag.
set_humidity_unguarded(self, humidity, w) ==
    LET buf == IF humidity.kind = "Some" THEN Humidity_as_bytes(humidity.humi)
               ELSE <<0, 0>>
        s   == send_command_and_data("SetHumidity", buf, w)
    IN  IF s.res.tag # "Ok" THEN Abort(self, s.trace, s.res)
        ELSE Outcome(self, s.trace \o << DelayMsEv(10) >>, Ok(Unit))

\* set_humidity passing an empty slice for None.
set_humidity_none_empty(self, humidity, w) ==
    IF ~self THEN Outcome(self, <<>>, ErrNotInitialized)
    ELSE
    LET buf == IF humidity.kind = "Some" THEN Humidity_as_bytes(humidity.humi)
               ELSE <<>>
        s   == send_command_and_data("SetHumidity", buf, w)
    IN  IF s.res.tag # "Ok" THEN Abort(self, s.trace, s.res)
        ELSE Outcome(self, s.trace \o << DelayMsEv(10) >>, Ok(Unit))

\* pub fn set_humidity(&mut self, humidity: Option<&Humidity>)
set_humidity(self, humidity, w) ==
    IF ~self THEN Outcome(self, <<>>, ErrNotInitialized)
    ELSE
    LET buf == IF humidity.kind = "Some" THEN Humidity_as_bytes(humidity.humi)
               ELSE <<0, 0>>
        s   == send_command_and_data("SetHumidity", buf, w)
    IN  IF s.res.tag # "Ok" THEN Abort(self, s.trace, s.res)
        ELSE Outcome(self, s.trace \o << DelayMsEv(10) >>, Ok(Unit))

\* get_feature_set handing the two data bytes to parse in the wrong order.
get_feature_set_swapped(self, w, r) ==
    LET s == send_command("GetFeatureSet", w) IN
    IF s.res.tag # "Ok" THEN Abort(self, s.trace, s.res)
    ELSE LET waited == s.trace \o << DelayMsEv(2) >>
             rd     == read_with_crc(3, r)
         IN  IF rd.res.tag # "Ok" THEN Abort(self, waited \o rd.trace, rd.res)
             ELSE Outcome(self, waited \o rd.trace,
                          Ok(FeatureSet_parse(rd.buf[2], rd.buf[1])))

\* get_feature_set refusing to run on a handle that is not initialized.
get_feature_set_guarded(self, w, r) ==
    IF ~self THEN Outcome(self, <<>>, ErrNotInitialized)
    ELSE
    LET s == send_command("GetFeatureSet", w) IN
    IF s.res.tag # "Ok" THEN Abort(self, s.trace, s.res)
    ELSE LET waited == s.trace \o << DelayMsEv(2) >>
             rd     == read_with_crc(3, r)
         IN  IF rd.res.tag # "Ok" THEN Abort(self, waited \o rd.trace, rd.res)
             ELSE Outcome(self, waited \o rd.trace,
                          Ok(FeatureSet_parse(rd.buf[1], rd.buf[2])))

\* pub fn get_feature_set(&mut self) -> Result<FeatureSet, Error<E>>
get_feature_set(self, w, r) ==
    LET s == send_command("GetFeatureSet", w) IN
    IF s.res.tag # "Ok" THEN Abort(self, s.trace, s.res)
    ELSE LET waited == s.trace \o << DelayMsEv(2) >>
             rd     == read_with_crc(3, r)
         IN  IF rd.res.tag # "Ok" THEN Abort(self, waited \o rd.trace, rd.res)
             ELSE Outcome(self, waited \o rd.trace,
                          Ok(FeatureSet_parse(rd.buf[1], rd.buf[2])))

\* The documented way to restore a baseline (the example of lib.rs:135-138):
\*     let baseline = sgp.get_baseline().unwrap();
\*     sgp.init().unwrap();
\*     sgp.set_baseline(&baseline).unwrap();
\* on a transport that accepts every write; r is what the read does.  An
\* unwrap() of an Err ends the sequence there.
restore_baseline(self, r) ==
    LET g == get_baseline(self, "ok", r) IN
    IF g.result.tag # "Ok" THEN g
    ELSE LET i == init(g.initialized, "ok")
             s == set_baseline(i.initialized, g.result.val, "ok")
         IN  Outcome(s.initialized, g.trace \o i.trace \o s.trace, s.result)

\* ---------------------------------------------------------- state machine

RECURSIVE WritesOf(_)
\* The writes among a call's events: the command code offered (the first two
\* bytes of the payload) and whether the transport accepted it.
WritesOf(events) ==
    IF events = <<>> THEN <<>>
    ELSE LET e == Head(events) IN
         (IF e.kind = "write"
          THEN << [code |-> SubSeq(e.bytes, 1, 2), ok |-> e.ok] >>
          ELSE <<>>) \o WritesOf(Tail(events))

\* Sgp30::new(i2c, address, delay): initialized: false, nothing called yet.
Init ==
    /\ initialized = FALSE
    /\ calls = <<>>
    /\ arg = NoArg
    /\ pre = FALSE
    /\ trace = <<>>
    /\ result = Ok(Unit)

\* One call of method `name` with argument a, whose outcome is out.
Call(name, a, out) ==
    /\ Len(calls) < MaxCalls
    /\ initialized' = out.initialized
    /\ calls' = Append(calls, [op |-> name, tag |-> out.result.tag,
                               writes |-> WritesOf(out.trace)])
    /\ arg' = a
    /\ pre' = initialized
    /\ trace' = out.trace
    /\ result' = out.result

\* The handle is dropped (destroy) and a new one is made over the same bus.
New ==
    /\ initialized' = FALSE
    /\ calls' = <<>>
    /\ arg' = NoArg
    /\ pre' = FALSE
    /\ trace' = <<>>
    /\ result' = Ok(Unit)

Serial ==
    \E t \in Transport(9) :
        Call("serial", NoArg, serial(initialized, t.w, t.r))

Selftest ==
    \E t \in Transport(3) :
        Call("selftest", NoArg, selftest(initialized, t.w, t.r))

InitCall ==
    \E t \in Transport(0) :
        Call("init", NoArg, init(initialized, t.w))

ForceInit ==
    \E t \in Transport(0) :
        Call("force_init", NoArg, force_init(initialized, t.w))

Measure ==
    \E t \in Transport(6) :
        Call("measure", NoArg, measure(initialized, t.w, t.r))

MeasureRawSignals ==
    \E t \in Transport(6) :
        Call("measure_raw_signals", NoArg, measure_raw_signals(initialized, t.w, t.r))

GetBaseline ==
    \E t \in Transport(6) :
        Call("get_baseline", NoArg, get_baseline(initialized, t.w, t.r))

SetBaseline ==
    \E t \in Transport(0), b \in [co2eq : Words16, tvoc : Words16] :
        Call("set_baseline", [kind |-> "Baseline", baseline |-> b],
             set_baseline(initialized, b, t.w))

SetHumidity ==
    \E t \in Transport(0),
       h \in {[kind |-> "None"]} \cup [kind : {"Some"}, humi : Humidities] :
        Call("set_humidity", h, set_humidity(initialized, h, t.w))

GetFeatureSet ==
    \E t \in Transport(3) :
        Call("get_feature_set", NoArg, get_feature_set(initialized, t.w, t.r))

Next ==
    \/ New
    \/ Serial
    \/ Selftest
    \/ InitCall
    \/ ForceInit
    \/ Measure
    \/ MeasureRawSignals
    \/ GetBaseline
    \/ SetBaseline
    \/ SetHumidity
    \/ GetFeatureSet

Spec == Init /\ [][Next]_vars

\* ------------------------------------------- one call, any response
\* The same handle and the same methods, with the call that follows new() or
\* the one init() answered by a sensor that may send any of a wider set of
\* words.  The transport accepts every write of these calls and completes
\* every read; their failures are the business of Spec.

\* The data words the sensor may answer with.
WideWords ==
    { <<0, 66>>,       \* 0x00 0x42
      <<15, 128>>,     \* 0x0F 0x80
      <<18, 52>>,      \* 0x12 0x34
      <<86, 120>>,     \* 0x56 0x78
      <<212, 0>>,      \* 0xD4 0x00
      <<212, 2>>,      \* 0xD4 0x02
      <<255, 255>> }   \* 0xFF 0xFF

\* A group of such a response: the word and a right or a corrupted checksum.
WideGroups ==
    UNION { { <<w[1], w[2], c>> : c \in {crc8(w), (crc8(w) + 1) % 256} }
            : w \in WideWords }

RECURSIVE WideBuffers(_)
\* The contents a completed read may leave in a buffer of n bytes.
WideBuffers(n) ==
    IF n = 0 THEN { <<>> }
    ELSE { g \o rest : g \in WideGroups, rest \in WideBuffers(n - 3) }

\* A read of n bytes that the transport completes.
WideReads(n) == [err : {"none"}, data : WideBuffers(n)]

\* A call made first on the handle or right after its init().
WideCall(name, a, out) ==
    /\ calls = <<>> \/ (Len(calls) = 1 /\ calls[1].op = "init")
    /\ Call(name, a, out)

\* The one init() that may come before the call.
InitOnce ==
    /\ calls = <<>>
    /\ InitCall

SerialWide ==
    \E r \in WideReads(9) :
        WideCall("serial", NoArg, serial(initialized, "ok", r))

SelftestWide ==
    \E r \in WideReads(3) :
        WideCall("selftest", NoArg, selftest(initialized, "ok", r))

MeasureWide ==
    \E r \in WideReads(6) :
        WideCall("measure", NoArg, measure(initialized, "ok", r))

MeasureRawSignalsWide ==
    \E r \in WideReads(6) :
        WideCall("measure_raw_signals", NoArg,
                 measure_raw_signals(initialized, "ok", r))

GetBaselineWide ==
    \E r \in WideReads(6) :
        WideCall("get_baseline", NoArg, get_baseline(initialized, "ok", r))

GetFeatureSetWide ==
    \E r \in WideReads(3) :
        WideCall("get_feature_set", NoArg, get_feature_set(initialized, "ok", r))

\* The humidities a caller builds, in 1/256 g/m3: 0.0, 1/256, 1.0, 11.57 (about),
\* 15.5 and 255 + 255/256.
HumidityValues == {0, 1, 256, 2962, 3968, 65535}

SetHumidityWide ==
    \E h \in {[kind |-> "None"]}
              \cup { [kind |-> "Some", value |-> q,
                      humi |-> Humidity_from_value(q).val] : q \in HumidityValues } :
        WideCall("set_humidity", h, set_humidity(initialized, h, "ok"))

RestoreBaselineWide ==
    \E r \in WideReads(6) :
        WideCall("restore_baseline", NoArg, restore_baseline(initialized, r))

NextWide ==
    \/ New
    \/ InitOnce
    \/ SerialWide
    \/ SelftestWide
    \/ MeasureWide
    \/ MeasureRawSignalsWide
    \/ GetBaselineWide
    \/ GetFeatureSetWide
    \/ RestoreBaselineWide
    \/ SetHumidityWide

SpecWide == Init /\ [][NextWide]_vars

\* ------------------------------------------------ the checksum functions
\* crc8 and validate_crc applied to given bytes, as the tests crc8_test_value
\* and validate_crc do: on a handle fresh from new(), whose transport is not
\* used.

\* The longest buffer given to validate_crc.
MaxBufLen == 8

\* The 2-byte groups given to crc8: every pair of bytes.
CrcGroups == { <<a, b>> : a \in 0..255, b \in 0..255 }

\* Buffers of one group with any checksum byte.
CrcTriples ==
    { w \o <<c>> : w \in WideWords \cup { <<190, 239>>, <<0, 0>> }, c \in 0..255 }

\* The groups longer buffers are made of: 0xBE 0xEF and 0x00 0x00 with the
\* right checksum byte (0x92, 0x81) or a wrong one.
CrcBufferGroups ==
    { <<190, 239, 146>>, <<190, 239, 145>>, <<190, 239, 255>>,
      <<0, 0, 129>>, <<0, 0, 0>> }

\* What may follow the last complete group: nothing, one byte or two.
CrcBufferTails ==
    { <<>> } \cup { <<a>> : a \in {0, 190} }
             \cup { <<a, b>> : a \in {0, 190}, b \in {0, 239} }

RECURSIVE CrcGroupSeqs(_)
\* The buffers made of k complete groups.
CrcGroupSeqs(k) ==
    IF k = 0 THEN { <<>> }
    ELSE { g \o rest : g \in CrcBufferGroups, rest \in CrcGroupSeqs(k - 1) }

\* The buffers of up to MaxBufLen bytes given to validate_crc.
CrcBuffers ==
    { b \in { gs \o t : gs \in UNION { CrcGroupSeqs(k) : k \in 0..(MaxBufLen \div 3) },
                        t \in CrcBufferTails } : Len(b) <= MaxBufLen }

\* A fresh handle and the bytes about to be given to one of the functions.
InitCrc ==
    /\ initialized = FALSE
    /\ calls = <<>>
    /\ arg \in [kind : {"group"}, bytes : CrcGroups]
                 \cup [kind : {"buffer"}, bytes : CrcTriples \cup CrcBuffers]
    /\ pre = FALSE
    /\ trace = <<>>
    /\ result = Ok(Unit)

\* crc8(&group)
Crc8Call ==
    /\ calls = <<>>
    /\ arg.kind = "group"
    /\ calls' = << [op |-> "crc8", tag |-> "Ok", writes |-> <<>>] >>
    /\ result' = Ok(crc8(arg.bytes))
    /\ UNCHANGED <<initialized, arg, pre, trace>>

\* sgp.validate_crc(&buffer)
ValidateCrcCall ==
    /\ calls = <<>>
    /\ arg.kind = "buffer"
    /\ LET res == validate_crc(arg.bytes)
       IN  /\ calls' = << [op |-> "validate_crc", tag |-> res.tag, writes |-> <<>>] >>
           /\ result' = res
    /\ UNCHANGED <<initialized, arg, pre, trace>>

NextCrc ==
    \/ Crc8Call
    \/ ValidateCrcCall

SpecCrc == InitCrc /\ [][NextCrc]_vars

\* ------------------------------------------------ send_command_and_data
\* send_command_and_data applied to a command and a data slice of any length,
\* on a handle in either state.

\* The longest data slice given to send_command_and_data.
MaxDataLen == 5

\* The bytes the data slices are made of.
SendBytes == {0, 18, 255}

\* The data slices of up to MaxDataLen bytes.
SendData == UNION { [1..n -> SendBytes] : n \in 0..MaxDataLen }

\* A handle in either state and the command and data about to be sent.
InitSend ==
    /\ initialized \in BOOLEAN
    /\ calls = <<>>
    /\ arg \in [kind : {"send"}, command : Commands, data : SendData]
    /\ pre = initialized
    /\ trace = <<>>
    /\ result = Ok(Unit)

\* self.send_command_and_data(command, &data)
SendCommandAndData ==
    /\ calls = <<>>
    /\ \E w \in {"ok"} \cup Errors :
          LET s == send_command_and_data(arg.command, arg.data, w)
          IN  /\ calls' = << [op |-> "send_command_and_data", tag |-> s.res.tag,
                              writes |-> WritesOf(s.trace)] >>
              /\ trace' = s.trace
              /\ result' = s.res
    /\ UNCHANGED <<initialized, arg, pre>>

NextSend == SendCommandAndData

SpecSend == InitSend /\ [][NextSend]_vars

\* ------------------------------------------------ a caller that retries init
\* A caller that keeps calling init on one handle, with guarded calls and
\* force_init in between, for as long as it likes. Only the last two calls
\* are remembered.

\* One call of method `name`, the call before it kept, older ones forgotten.
RetryCall(name, a, out) ==
    /\ initialized' = out.initialized
    /\ calls' = Append(IF calls = <<>> THEN <<>> ELSE << calls[Len(calls)] >>,
                       [op |-> name, tag |-> out.result.tag,
                        writes |-> WritesOf(out.trace)])
    /\ arg' = a
    /\ pre' = initialized
    /\ trace' = out.trace
    /\ result' = out.result

\* sgp.init() while the transport rejects the write it is offered, if any.
RetryInitRejected ==
    \E e \in Errors : RetryCall("init", NoArg, init(initialized, e))

\* sgp.init() while the transport accepts the write it is offered, if any.
RetryInitAccepted ==
    RetryCall("init", NoArg, init(initialized, "ok"))

RetryForceInit ==
    \E t \in Transport(0) :
        RetryCall("force_init", NoArg, force_init(initialized, t.w))

RetryMeasure ==
    \E t \in Transport(6) :
        RetryCall("measure", NoArg, measure(initialized, t.w, t.r))

RetryMeasureRawSignals ==
    \E t \in Transport(6) :
        RetryCall("measure_raw_signals", NoArg,
                  measure_raw_signals(initialized, t.w, t.r))

RetrySetBaseline ==
    \E t \in Transport(0), b \in [co2eq : Words16, tvoc : Words16] :
        RetryCall("set_baseline", [kind |-> "Baseline", baseline |-> b],
                  set_baseline(initialized, b, t.w))

RetrySetHumidity ==
    \E t \in Transport(0),
       h \in {[kind |-> "None"]} \cup [kind : {"Some"}, humi : Humidities] :
        RetryCall("set_humidity", h, set_humidity(initialized, h, t.w))

NextRetry ==
    \/ RetryInitRejected
    \/ RetryInitAccepted
    \/ RetryForceInit
    \/ RetryMeasure
    \/ RetryMeasureRawSignals
    \/ RetrySetBaseline
    \/ RetrySetHumidity

\* The caller keeps calling init, and the transport does not reject its
\* write for ever: an init whose write is accepted eventually happens.
SpecRetry == Init /\ [][NextRetry]_vars /\ WF_vars(RetryInitAccepted)

\* ------------------------------------------------------------ properties

\* The last call made on the handle ("new": none yet).
LastOp == IF calls = <<>> THEN "new" ELSE calls[Len(calls)].op

GuardedOps == {"measure", "measure_raw_signals", "set_baseline", "set_humidity"}

NonGuardedOps == {"serial", "selftest", "get_baseline", "get_feature_set"}

\* The codes of the guarded commands: 0x2008, 0x2050, 0x201E, 0x2061.
GuardedCodes == { <<32, 8>>, <<32, 80>>, <<32, 30>>, <<32, 97>> }

\* The code of InitAirQuality: 0x2003.
InitCode == <<32, 3>>

\* The positions of the events of one kind in the last call's trace.
EventsOf(kind) == { i \in DOMAIN trace : trace[i].kind = kind }

\* How many writes of `code` the calls from..to offered to the transport.
WritesOfCode(code, from, to) ==
    Cardinality(UNION { { <<k, i>> : i \in { h \in DOMAIN calls[k].writes :
                                               calls[k].writes[h].code = code } }
                        : k \in (from..to) \cap DOMAIN calls })

\* C1: a guarded operation (measure, measure_raw_signals, set_baseline,
\* set_humidity) called while initialized is false returns NotInitialized,
\* causes no write, no read and no delay, and leaves the flag false.
C1_GuardedRejectedBeforeInit ==
    (LastOp \in GuardedOps /\ ~pre) =>
        /\ result = ErrNotInitialized
        /\ trace = <<>>
        /\ initialized = FALSE

\* C1 witness: set_humidity is refused on a handle whose init was rejected
\* by the transport.
C1_Witness ==
    /\ Len(calls) = 2
    /\ calls[1].op = "init" /\ calls[1].tag = "I2c"
    /\ calls[2].op = "set_humidity" /\ calls[2].tag = "NotInitialized"
    /\ arg.kind = "Some"
    /\ ~pre

\* C2: over any sequence of calls on one handle, every write that carries a
\* guarded command code comes after an InitAirQuality write the transport
\* accepted, and a guarded operation that starts with the flag false causes
\* no bus activity.
C2_GuardedWritesFollowAcceptedInit ==
    /\ \A k \in DOMAIN calls : \A i \in DOMAIN calls[k].writes :
          calls[k].writes[i].code \in GuardedCodes =>
              \E j \in 1..(k - 1) : \E h \in DOMAIN calls[j].writes :
                  /\ calls[j].writes[h].code = InitCode
                  /\ calls[j].writes[h].ok
    /\ (LastOp \in GuardedOps /\ ~pre) => trace = <<>>

\* C2 witness: a guarded command reaches the bus after an accepted init.
C2_Witness ==
    /\ Len(calls) = 2
    /\ calls[1].writes = << [code |-> InitCode, ok |-> TRUE] >>
    /\ calls[2].op = "set_baseline"
    /\ calls[2].writes # <<>>
    /\ calls[2].writes[1].code \in GuardedCodes

\* C3: init on an Initialized handle returns success, causes no transport
\* call and no delay and leaves the handle Initialized; so two init calls in a
\* row on a fresh handle whose transport accepts every write offer exactly one
\* InitAirQuality write.
C3_InitIsNoOpWhenInitialized ==
    /\ (LastOp = "init" /\ pre) =>
          /\ result = Ok(Unit)
          /\ trace = <<>>
          /\ initialized = TRUE
    /\ ( /\ Len(calls) >= 2
         /\ calls[1].op = "init" /\ calls[2].op = "init"
         /\ \A k \in 1..2 : \A i \in DOMAIN calls[k].writes : calls[k].writes[i].ok )
       => WritesOfCode(InitCode, 1, 2) = 1

\* C3 witness: the second of two init calls, the first of which succeeded.
C3_Witness ==
    /\ Len(calls) = 2
    /\ calls[1].op = "init" /\ calls[1].tag = "Ok"
    /\ calls[2].op = "init" /\ calls[2].tag = "Ok"
    /\ pre

\* C4: force_init, whether the handle is Uninitialized or Initialized, offers
\* exactly one write, of the InitAirQuality code [0x20, 0x03]; when the
\* transport accepts it, one wait of 10 ms follows and nothing else, the call
\* succeeds and the handle is Initialized; so two force_init calls in a row
\* offer two InitAirQuality writes.
C4_ForceInitAlwaysSends ==
    /\ LastOp = "force_init" =>
          /\ Len(trace) >= 1
          /\ trace[1].kind = "write" /\ trace[1].bytes = <<32, 3>>
          /\ EventsOf("write") = {1}
          /\ trace[1].ok =>
                /\ trace = << WriteEv(<<32, 3>>, "none"), DelayMsEv(10) >>
                /\ result = Ok(Unit)
                /\ initialized = TRUE
    /\ \A k \in 1..(Len(calls) - 1) :
          (calls[k].op = "force_init" /\ calls[k + 1].op = "force_init")
              => WritesOfCode(InitCode, k, k + 1) = 2

\* C4 witness: the second of two force_init calls, both accepted, the second
\* on a handle that was already Initialized.
C4_Witness ==
    /\ Len(calls) = 2
    /\ calls[1].op = "force_init" /\ calls[1].tag = "Ok"
    /\ calls[2].op = "force_init" /\ calls[2].tag = "Ok"
    /\ pre
    /\ Len(trace) = 2

\* C5: on an Uninitialized handle init behaves exactly like force_init: what
\* the call leaves behind (the flag, the bus and delay events, the result) is
\* what force_init leaves behind on the same handle for the same answer of the
\* transport to the write.
C5_InitLikeForceInitWhenUninitialized ==
    (LastOp = "init" /\ ~pre) =>
        /\ Len(trace) >= 1
        /\ trace[1].kind = "write"
        /\ LET w == IF trace[1].ok THEN "ok" ELSE trace[1].err
           IN  Outcome(initialized, trace, result) = force_init(pre, w)

\* C5 witness: init on an Uninitialized handle, both with the write rejected
\* (the first call) and with the write accepted (the second).
C5_Witness ==
    /\ Len(calls) = 2
    /\ calls[1].op = "init" /\ calls[1].tag = "I2c"
    /\ calls[2].op = "init" /\ calls[2].tag = "Ok"
    /\ ~pre /\ initialized

\* The command each non-guarded operation sends.
NonGuardedCode(op) ==
    CASE op = "serial"          -> <<54, 130>>
      [] op = "selftest"        -> <<32, 50>>
      [] op = "get_baseline"    -> <<32, 21>>
      [] op = "get_feature_set" -> <<32, 47>>

\* C6: serial, selftest, get_baseline and get_feature_set offer their command
\* write whether the handle is Uninitialized or Initialized, never return
\* NotInitialized, and leave the flag as it was whether they succeed, fail in
\* the transport or fail the checksum.
C6_NonGuardedRunInAnyState ==
    LastOp \in NonGuardedOps =>
        /\ Len(trace) >= 1
        /\ trace[1].kind = "write"
        /\ trace[1].bytes = NonGuardedCode(LastOp)
        /\ result.tag \in {"Ok", "I2c", "Crc"}
        /\ initialized = pre

\* C6 witness: get_feature_set answers on a handle that was never initialized.
C6_Witness ==
    /\ LastOp = "get_feature_set"
    /\ ~pre /\ ~initialized
    /\ result.tag = "Ok"
    /\ Len(trace) = 3

\* Some complete 3-byte group of the buffer carries a wrong checksum byte.
HasMismatch(bytes) ==
    \E g \in 0..((Len(bytes) \div 3) - 1) :
        crc8(<<bytes[3 * g + 1], bytes[3 * g + 2]>>) # bytes[3 * g + 3]

\* C7: when the response a read operation received has a checksum mismatch in
\* any of its groups, the operation returns the checksum error and the flag is
\* what it was before the call.
C7_ChecksumMismatchKeepsFlag ==
    \A i \in EventsOf("read") :
        (trace[i].ok /\ HasMismatch(trace[i].bytes)) =>
            /\ result = ErrCrc
            /\ initialized = pre

\* C7 witness: measure on an Initialized handle reads a response whose first
\* group is right and whose second group has a wrong checksum byte.
C7_Witness ==
    /\ LastOp = "measure"
    /\ pre /\ initialized
    /\ Len(trace) = 3
    /\ trace[3].kind = "read" /\ trace[3].ok
    /\ ~HasMismatch(SubSeq(trace[3].bytes, 1, 3))
    /\ HasMismatch(trace[3].bytes)
    /\ result = ErrCrc

\* C8: a transport failure ends the call at once with the transport's own
\* error: a rejected write is the call's only event (no delay, no read), a
\* failed read is its last event and the result is the transport error, not
\* the checksum error; no call makes more than one write or more than one read.
C8_TransportFailureAborts ==
    /\ \A i \in DOMAIN trace :
          (trace[i].kind \in {"write", "read"} /\ ~trace[i].ok) =>
              /\ i = Len(trace)
              /\ result = ErrI2c(trace[i].err)
              /\ trace[i].err \in Errors
              /\ trace[i].kind = "write" => Len(trace) = 1
    /\ Cardinality(EventsOf("write")) <= 1
    /\ Cardinality(EventsOf("read")) <= 1

\* C8 witness: the read of serial fails after its write was accepted.
C8_Witness ==
    /\ LastOp = "serial"
    /\ Len(trace) = 3
    /\ trace[1].kind = "write" /\ trace[1].ok
    /\ trace[3].kind = "read" /\ trace[3].err = "BusBusy"
    /\ result = ErrI2c("BusBusy")

\* C9: force_init, and init on an Uninitialized handle, leave the flag true
\* when the transport accepted the InitAirQuality write; when it rejected the
\* write they return the transport's error and leave the flag as it was (false
\* stays false, true stays true).
C9_FlagSetOnAcceptedInitWrite ==
    (LastOp = "force_init" \/ (LastOp = "init" /\ ~pre)) =>
        /\ Len(trace) >= 1
        /\ trace[1].kind = "write" /\ trace[1].bytes = InitCode
        /\ trace[1].ok => (initialized = TRUE /\ result = Ok(Unit))
        /\ ~trace[1].ok => (initialized = pre /\ result = ErrI2c(trace[1].err))

\* C9 witness: force_init is rejected on a handle that was Initialized, which
\* stays Initialized.
C9_Witness ==
    /\ LastOp = "force_init"
    /\ pre /\ initialized
    /\ result.tag = "I2c"

ReadOps ==
    {"serial", "selftest", "measure", "measure_raw_signals", "get_baseline",
     "get_feature_set"}

WriteOnlyOps == {"init", "force_init", "set_baseline", "set_humidity"}

\* The wait each operation makes after its write: 500 us for serial, the
\* others in milliseconds.
SettleOf(op) ==
    CASE op = "serial"              -> DelayUsEv(500)
      [] op = "selftest"            -> DelayMsEv(220)
      [] op = "init"                -> DelayMsEv(10)
      [] op = "force_init"          -> DelayMsEv(10)
      [] op = "measure"             -> DelayMsEv(12)
      [] op = "measure_raw_signals" -> DelayMsEv(25)
      [] op = "get_baseline"        -> DelayMsEv(10)
      [] op = "set_baseline"        -> DelayMsEv(10)
      [] op = "set_humidity"        -> DelayMsEv(10)
      [] op = "get_feature_set"     -> DelayMsEv(2)

\* C10: a call that reaches the bus goes write, wait, read: its first event
\* is its write; when the write is accepted the second event is the one wait
\* of the operation's settle time and there is no other wait; a read operation
\* then makes its one read as the third event; init, force_init, set_baseline
\* and set_humidity make no read.
C10_WriteWaitRead ==
    trace # <<>> =>
        /\ trace[1].kind = "write"
        /\ trace[1].ok =>
              /\ Len(trace) >= 2
              /\ trace[2] = SettleOf(LastOp)
              /\ EventsOf("delay_us") \cup EventsOf("delay_ms") = {2}
        /\ ~trace[1].ok => EventsOf("delay_us") \cup EventsOf("delay_ms") = {}
        /\ (LastOp \in ReadOps /\ trace[1].ok) => EventsOf("read") = {3}
        /\ EventsOf("read") \subseteq {3}
        /\ LastOp \in WriteOnlyOps => EventsOf("read") = {}
        /\ Len(trace) <= 3

\* C10 witness: serial has written, waited 500 us and read its 9 bytes.
C10_Witness ==
    /\ LastOp = "serial"
    /\ Len(trace) = 3
    /\ trace[2] = DelayUsEv(500)
    /\ trace[3].kind = "read" /\ trace[3].n = 9 /\ trace[3].ok
    /\ result.tag = "Ok"

\* The read of the last call: its third event, after the write and the wait.
LastRead == trace[3].bytes

\* The last call read a whole response in which every checksum byte is right.
ReadValid(n) ==
    /\ Len(trace) >= 3
    /\ trace[3].kind = "read" /\ trace[3].ok
    /\ Len(trace[3].bytes) = n
    /\ ~HasMismatch(trace[3].bytes)

\* C11: for every 6-byte response [b0, b1, c0, b3, b4, c1] whose two checksum
\* bytes are right, measure returns co2eq_ppm = 256 * b0 + b1 and tvoc_ppb =
\* 256 * b3 + b4, and measure_raw_signals (h2, ethanol) and get_baseline
\* (co2eq, tvoc) decode the same bytes the same way into their two fields.
C11_SixByteResponsesDecodeBigEndian ==
    (LastOp \in {"measure", "measure_raw_signals", "get_baseline"} /\ ReadValid(6)) =>
        LET b == LastRead
            first  == 256 * b[1] + b[2]
            second == 256 * b[4] + b[5]
        IN  /\ result.tag = "Ok"
            /\ LastOp = "measure" =>
                  result.val = [co2eq_ppm |-> first, tvoc_ppb |-> second]
            /\ LastOp = "measure_raw_signals" =>
                  result.val = [h2 |-> first, ethanol |-> second]
            /\ LastOp = "get_baseline" =>
                  result.val = [co2eq |-> first, tvoc |-> second]

\* C11 witness: measure reads [0x12, 0x34, 0x37, 0xD4, 0x02, 0xA4] and returns
\* 4660 ppm and 54274 ppb.
C11_Witness ==
    /\ LastOp = "measure"
    /\ ReadValid(6)
    /\ LastRead = <<18, 52, 55, 212, 2, 164>>
    /\ result = Ok([co2eq_ppm |-> 4660, tvoc_ppb |-> 54274])

\* The code of SetBaseline: 0x201E.
SetBaselineCode == <<32, 30>>

\* C12: a Baseline goes through get and set unchanged: when get_baseline read
\* a response r of 6 bytes with both checksum bytes right, set_baseline called
\* (on the Initialized handle) with the Baseline it returned writes the
\* SetBaseline code [0x20, 0x1E] followed by exactly the 6 bytes r.
C12_BaselineRoundTrip ==
    (LastOp = "restore_baseline" /\ ReadValid(6)) =>
        /\ result = Ok(Unit)
        /\ \E i \in EventsOf("write") :
              /\ trace[i].bytes = SetBaselineCode \o LastRead
              /\ \A j \in EventsOf("write") :
                    SubSeq(trace[j].bytes, 1, 2) = SetBaselineCode => j = i

\* C12 witness: the response [0x12, 0x34, 0x37, 0x56, 0x78, 0x7D] read on a
\* fresh handle comes back as the SetBaseline payload after the init.
C12_Witness ==
    /\ LastOp = "restore_baseline"
    /\ ~pre /\ initialized
    /\ ReadValid(6)
    /\ LastRead = <<18, 52, 55, 86, 120, 125>>
    /\ Len(trace) = 7
    /\ trace[6].bytes = <<32, 30, 18, 52, 55, 86, 120, 125>>

\* C13: selftest returns true exactly when the two data bytes of a response
\* with a right checksum are [0xD4, 0x00]; every other such response gives
\* the result false, not an error.
C13_SelftestPattern ==
    (LastOp = "selftest" /\ ReadValid(3)) =>
        /\ result.tag = "Ok"
        /\ result.val \in BOOLEAN
        /\ result.val <=> (LastRead[1] = 212 /\ LastRead[2] = 0)

\* C13 witness: the response [0x12, 0x34, 0x37] gives Ok(false).
C13_Witness ==
    /\ LastOp = "selftest"
    /\ ReadValid(3)
    /\ LastRead = <<18, 52, 55>>
    /\ result = Ok(FALSE)

\* C14: for every 9-byte response whose three checksum bytes are right,
\* serial returns response bytes 0, 1, 3, 4, 6, 7 in that order: the data
\* bytes as they came, the checksum bytes (2, 5, 8) dropped.
C14_SerialKeepsDataBytes ==
    (LastOp = "serial" /\ ReadValid(9)) =>
        LET b == LastRead
        IN  result = Ok(<< b[1], b[2], b[4], b[5], b[7], b[8] >>)

\* C14 witness: three different groups, returned in wire order.
C14_Witness ==
    /\ LastOp = "serial"
    /\ ReadValid(9)
    /\ LastRead = <<18, 52, 55, 86, 120, 125, 212, 2, 164>>
    /\ result = Ok(<<18, 52, 86, 120, 212, 2>>)

\* C15: on an Initialized handle set_humidity(Some(h)) makes exactly one
\* write, [0x20, 0x61, hi, lo, crc] with hi the integer part of h, lo its
\* fractional part in 1/256 and crc the checksum of [hi, lo] (15.5 g/m3:
\* [0x20, 0x61, 0x0F, 0x80, 0x62]); set_humidity(None) writes the data word
\* [0x00, 0x00], that is [0x20, 0x61, 0x00, 0x00, 0x81].
C15_HumidityPayload ==
    (LastOp = "set_humidity" /\ pre) =>
        LET hi == IF arg.kind = "Some" THEN arg.value \div 256 ELSE 0
            lo == IF arg.kind = "Some" THEN arg.value % 256 ELSE 0
        IN  /\ Len(trace) >= 1
            /\ EventsOf("write") = {1}
            /\ trace[1].bytes = << 32, 97, hi, lo, crc8(<<hi, lo>>) >>
            /\ (arg.kind = "Some" /\ arg.value = 3968) =>
                  trace[1].bytes = <<32, 97, 15, 128, 98>>
            /\ arg.kind = "None" => trace[1].bytes = <<32, 97, 0, 0, 129>>

\* C15 witness: 15.5 g/m3 is sent to an Initialized handle.
C15_Witness ==
    /\ LastOp = "set_humidity"
    /\ pre
    /\ arg.kind = "Some" /\ arg.value = 3968
    /\ trace = << WriteEv(<<32, 97, 15, 128, 98>>, "none"), DelayMsEv(10) >>
    /\ result = Ok(Unit)

\* C16: for every response [b0, b1, c] with the right checksum,
\* get_feature_set returns product_version = b1 and a product type taken from
\* the high nibble of b0: Sgp30 for 0, Unknown with that 4-bit code otherwise;
\* the low nibble of b0 plays no part.
C16_FeatureSetFromNibble ==
    (LastOp = "get_feature_set" /\ ReadValid(3)) =>
        LET b == LastRead
            high == b[1] \div 16
        IN  /\ result.tag = "Ok"
            /\ result.val.product_version = b[2]
            /\ result.val.product_type =
                  IF high = 0 THEN [kind |-> "Sgp30", code |-> 0]
                  ELSE [kind |-> "Unknown", code |-> high]

\* C16 witness: [0x0F, 0x80, 0x62], whose first byte has high nibble 0 and
\* low nibble 15, is an Sgp30 of version 0x80.
C16_Witness ==
    /\ LastOp = "get_feature_set"
    /\ ReadValid(3)
    /\ LastRead = <<15, 128, 98>>
    /\ result = Ok([product_type |-> [kind |-> "Sgp30", code |-> 0],
                    product_version |-> 128])

RECURSIVE Pow2(_)
Pow2(n) == IF n = 0 THEN 1 ELSE 2 * Pow2(n - 1)

RECURSIVE PolyMod(_, _)
\* The remainder of the polynomial m over GF(2) (bit k is the coefficient of
\* x^k) divided by x^8 + x^5 + x^4 + 1 (0x131), cancelling from bit pos down.
PolyMod(m, pos) ==
    IF pos < 8 THEN m
    ELSE IF (m \div Pow2(pos)) % 2 = 1
         THEN PolyMod(BitXor(m, 305 * Pow2(pos - 8)), pos - 1)
         ELSE PolyMod(m, pos - 1)

\* CRC-8 of the group [a, b] with polynomial 0x31, initial register 0xFF, no
\* reflection, most significant bit first: the remainder of the message
\* times x^8, the initial register added to its first byte.
Crc8Reference(a, b) == PolyMod((BitXor(a, 255) * 256 + b) * 256, 23)

\* C17: crc8 of a 2-byte group is the CRC-8 with polynomial 0x31, initial
\* register 0xFF, no reflection, most significant bit first; its result is a
\* byte (0..255); crc8([0xBE, 0xEF]) = 0x92 and the words of the tests give
\* 0x37, 0x7D, 0xC6, 0x81 and 0x62.
C17_Crc8IsCrc8Poly31 ==
    LastOp = "crc8" =>
        LET a == arg.bytes[1]
            b == arg.bytes[2]
        IN  /\ result.tag = "Ok"
            /\ result.val \in 0..255
            /\ result.val = Crc8Reference(a, b)
            /\ arg.bytes = <<190, 239>> => result.val = 146
            /\ arg.bytes = <<18, 52>>   => result.val = 55
            /\ arg.bytes = <<86, 120>>  => result.val = 125
            /\ arg.bytes = <<212, 0>>   => result.val = 198
            /\ arg.bytes = <<0, 0>>     => result.val = 129
            /\ arg.bytes = <<15, 128>>  => result.val = 98

\* C17 witness: the reference vector of the datasheet.
C17_Witness ==
    /\ LastOp = "crc8"
    /\ arg.bytes = <<190, 239>>
    /\ result = Ok(146)

\* C18: for all bytes a, b, c, validate_crc on [a, b, c] succeeds exactly
\* when c = crc8([a, b]); when c differs it fails with Error::Crc.
C18_ValidateOneGroup ==
    (LastOp = "validate_crc" /\ Len(arg.bytes) = 3) =>
        LET a == arg.bytes[1]
            b == arg.bytes[2]
            c == arg.bytes[3]
        IN  /\ (c = crc8(<<a, b>>)) => result = Ok(Unit)
            /\ (c # crc8(<<a, b>>)) => result = ErrCrc

\* C18 witness: [0xBE, 0xEF, 0x91] fails with Error::Crc.
C18_Witness ==
    /\ LastOp = "validate_crc"
    /\ arg.bytes = <<190, 239, 145>>
    /\ result = ErrCrc

\* C19: validate_crc looks at the complete 3-byte groups only: a buffer of n
\* bytes succeeds exactly when each of its n \div 3 complete groups has the
\* right checksum byte, whatever the bytes after the last complete group; so
\* buffers of 0, 1 or 2 bytes always succeed.
C19_ValidateCompleteGroupsOnly ==
    LastOp = "validate_crc" =>
        /\ result \in {Ok(Unit), ErrCrc}
        /\ (result = Ok(Unit)) <=> ~HasMismatch(arg.bytes)
        /\ Len(arg.bytes) < 3 => result = Ok(Unit)
        /\ (result = Ok(Unit)) <=>
              (validate_crc(SubSeq(arg.bytes, 1, 3 * (Len(arg.bytes) \div 3)))
                  = Ok(Unit))

\* C19 witness: an 8-byte buffer whose first group is right, whose second
\* group alone is wrong and which ends in two more bytes fails.
C19_Witness ==
    /\ LastOp = "validate_crc"
    /\ arg.bytes = <<190, 239, 146, 190, 239, 255, 190, 239>>
    /\ result = ErrCrc

\* The response length each read operation asks the transport for.
ResponseLen(op) ==
    CASE op = "serial"              -> 9
      [] op = "selftest"            -> 3
      [] op = "measure"             -> 6
      [] op = "measure_raw_signals" -> 6
      [] op = "get_baseline"        -> 6
      [] op = "get_feature_set"     -> 3

\* C20: every read operation asks for a fixed response length that is a
\* multiple of 3 (serial 9, selftest 3, measure 6, measure_raw_signals 6,
\* get_baseline 6, get_feature_set 3), and returns a value only after a
\* response of that length made of complete groups that all carry the right
\* checksum byte, so that no byte of an unvalidated group reaches the caller.
C20_ReadsAreWholeValidatedGroups ==
    LastOp \in ReadOps =>
        /\ \A i \in EventsOf("read") :
              /\ trace[i].n = ResponseLen(LastOp)
              /\ trace[i].n % 3 = 0
        /\ result.tag = "Ok" =>
              /\ Cardinality(EventsOf("read")) = 1
              /\ \A i \in EventsOf("read") :
                    /\ trace[i].ok
                    /\ Len(trace[i].bytes) = ResponseLen(LastOp)
                    /\ \A g \in 0..((Len(trace[i].bytes) \div 3) - 1) :
                          trace[i].bytes[3 * g + 3]
                              = crc8(<<trace[i].bytes[3 * g + 1],
                                       trace[i].bytes[3 * g + 2]>>)

\* C20 witness: serial returns a value after a 9-byte response of three
\* validated groups.
C20_Witness ==
    /\ LastOp = "serial"
    /\ result.tag = "Ok"
    /\ \E i \in EventsOf("read") : trace[i].n = 9 /\ Len(trace[i].bytes) = 9

\* The group a data word travels in: its two bytes and their checksum byte.
GroupOf(hi, lo) == <<hi, lo, crc8(<<hi, lo>>)>>

\* C21: for k = 1 or 2 data words, send_command_and_data makes a single
\* transport write whose payload is the 2-byte command code followed by the
\* k groups [data_hi, data_lo, crc8([data_hi, data_lo])] in the order the
\* words were given, 2 + 3k bytes in all (5 or 8); nothing of the unused end
\* of the 8-byte buffer is sent when k = 1.
C21_PayloadIsCodeThenGroups ==
    (LastOp = "send_command_and_data" /\ Len(arg.data) \in {2, 4}) =>
        LET d == arg.data
            k == Len(d) \div 2
        IN  /\ Len(trace) = 1
            /\ trace[1].kind = "write"
            /\ Len(trace[1].bytes) = 2 + 3 * k
            /\ trace[1].bytes =
                  as_bytes(arg.command) \o GroupOf(d[1], d[2])
                      \o (IF k = 2 THEN GroupOf(d[3], d[4]) ELSE <<>>)

\* C21 witness: one word sent in a payload of 5 bytes.
C21_Witness ==
    /\ LastOp = "send_command_and_data"
    /\ arg.command = "SetHumidity"
    /\ arg.data = <<18, 255>>
    /\ Len(trace) = 1
    /\ Len(trace[1].bytes) = 5
    /\ trace[1].ok

\* C22: given data that is not one or two 2-byte words,
\* send_command_and_data stops before any bus activity: no transport write
\* is made, no result is returned and the initialized flag keeps its value.
C22_OtherLengthsRejectedBeforeBus ==
    (LastOp = "send_command_and_data" /\ Len(arg.data) \notin {2, 4}) =>
        /\ trace = <<>>
        /\ calls[1].writes = <<>>
        /\ result.tag = "Panic"
        /\ initialized = pre

\* C22 witness: data of 5 bytes is rejected on an initialized handle.
C22_Witness ==
    /\ LastOp = "send_command_and_data"
    /\ Len(arg.data) = 5
    /\ pre /\ initialized
    /\ result.tag = "Panic"
    /\ trace = <<>>

\* How many bytes the data takes with a checksum byte counted for each of
\* its 2-byte words.
LenWithChecksums(data) == Len(data) + (Len(data) \div 2)

\* C23 (as stated): the data send_command_and_data accepts has a length of
\* exactly 4 or 8 bytes when its checksum bytes are counted.
C23_AsStated ==
    (LastOp = "send_command_and_data" /\ result.tag # "Panic") =>
        /\ LenWithChecksums(arg.data) \in {4, 8}
        /\ Len(trace[1].bytes) - 2 \in {4, 8}

\* C23 (amended): the data send_command_and_data accepts is exactly one or
\* two 2-byte words, 2 or 4 bytes; with the checksum byte that follows each
\* word it is 3 or 6 bytes, sent after the 2-byte command code.
C23_AcceptedDataLength ==
    LastOp = "send_command_and_data" =>
        /\ (result.tag # "Panic") <=> (Len(arg.data) \in {2, 4})
        /\ (result.tag # "Panic") =>
              /\ LenWithChecksums(arg.data) \in {3, 6}
              /\ Len(trace[1].bytes) - 2 = LenWithChecksums(arg.data)

\* C23 witness: two words are accepted and travel as 6 bytes after the code.
C23_Witness ==
    /\ LastOp = "send_command_and_data"
    /\ Len(arg.data) = 4
    /\ result = Ok(Unit)
    /\ Len(trace[1].bytes) = 8

\* The public operations.
PublicOps == ReadOps \cup WriteOnlyOps

\* The 16-bit code each public operation is to put on the bus.
CodeOfOp(op) ==
    CASE op = "serial"              -> 13954    \* 0x3682
      [] op = "selftest"            -> 8242     \* 0x2032
      [] op = "init"                -> 8195     \* 0x2003
      [] op = "force_init"          -> 8195     \* 0x2003
      [] op = "measure"             -> 8200     \* 0x2008
      [] op = "measure_raw_signals" -> 8272     \* 0x2050
      [] op = "get_baseline"        -> 8213     \* 0x2015
      [] op = "set_baseline"        -> 8222     \* 0x201E
      [] op = "set_humidity"        -> 8289     \* 0x2061
      [] op = "get_feature_set"     -> 8239     \* 0x202F

\* C24: every public operation that reaches the bus makes exactly one write,
\* the first event of the call, whose first two bytes are the code of its own
\* command (serial 0x3682, selftest 0x2032, init and force_init 0x2003,
\* measure 0x2008, measure_raw_signals 0x2050, get_baseline 0x2015,
\* set_baseline 0x201E, set_humidity 0x2061, get_feature_set 0x202F); the
\* nine codes are pairwise distinct, so no operation sends the code of
\* another command.
C24_OneWriteOfOwnCode ==
    LastOp \in PublicOps =>
        /\ trace # <<>> =>
              /\ EventsOf("write") = {1}
              /\ 256 * trace[1].bytes[1] + trace[1].bytes[2] = CodeOfOp(LastOp)
              /\ \A op \in PublicOps :
                    CodeOfOp(op) # CodeOfOp(LastOp) =>
                        SubSeq(trace[1].bytes, 1, 2)
                            # <<CodeOfOp(op) \div 256, CodeOfOp(op) % 256>>
        /\ Cardinality({ as_bytes(c) : c \in Commands }) = 9
        /\ Cardinality({ CodeOfOp(op) : op \in PublicOps }) = 9

\* C24 witness: get_baseline ran to its end after one write of 0x20 0x15.
C24_Witness ==
    /\ LastOp = "get_baseline"
    /\ result.tag = "Ok"
    /\ EventsOf("write") = {1}
    /\ trace[1].bytes = <<32, 21>>

\* C25: the initialized flag is monotonic. A handle starts with initialized =
\* false; over any sequence of public operations, whatever succeeds or fails,
\* a call on a handle whose flag is true leaves it true, and the only calls
\* that change the flag are init and force_init.
C25_FlagMonotonic ==
    [][ /\ calls = <<>> => ~initialized
        /\ calls' # <<>> =>
              /\ initialized => initialized'
              /\ initialized' # initialized =>
                    calls'[Len(calls')].op \in {"init", "force_init"}
      ]_vars

\* C25 witness: a call on an initialized handle failed its checksum check and
\* the flag is still true.
C25_Witness ==
    /\ Len(calls) = 2
    /\ LastOp = "measure"
    /\ result = ErrCrc
    /\ pre /\ initialized

\* A failed init leaves no trace in the handle: the flag is still false after
\* it, the init that follows it sends InitAirQuality again, guarded calls on
\* an uninitialized handle return NotInitialized without touching the bus,
\* and the flag turns true only in an init or force_init whose write was
\* accepted.
FailedInitNotRemembered ==
    /\ (LastOp = "init" /\ ~pre /\ result.tag = "I2c") => ~initialized
    /\ ( /\ Len(calls) = 2
         /\ calls[1].op = "init" /\ calls[1].tag = "I2c"
         /\ calls[2].op = "init" )
       => /\ Len(calls[2].writes) = 1
          /\ calls[2].writes[1].code = InitCode
    /\ (LastOp \in GuardedOps /\ ~pre) =>
          /\ result = ErrNotInitialized
          /\ trace = <<>>
          /\ ~initialized
    /\ (~pre /\ initialized) =>
          /\ LastOp \in {"init", "force_init"}
          /\ \E i \in EventsOf("write") :
                trace[i].ok /\ SubSeq(trace[i].bytes, 1, 2) = InitCode

\* C26: a failed init is not remembered as done. After init failed on an
\* uninitialized handle because its write was rejected, the next init sends
\* InitAirQuality again, and guarded calls return NotInitialized until an
\* init or force_init write is accepted; when the caller keeps calling init
\* and the transport eventually accepts the write, the handle eventually is
\* initialized and stays so.
C26_FailedInitIsRetried ==
    /\ []FailedInitNotRemembered
    /\ <>[]initialized

\* C26 witness: the first init was rejected, the second was accepted after
\* the same write and the handle is initialized.
C26_Witness ==
    /\ Len(calls) = 2
    /\ calls[1].op = "init" /\ calls[1].tag = "I2c"
    /\ calls[2].op = "init" /\ calls[2].tag = "Ok"
    /\ Len(calls[2].writes) = 1 /\ calls[2].writes[1].ok
    /\ ~pre /\ initialized

SetHumidityCode == <<32, 97>>

\* C27: the assert on the data length in send_command_and_data never fails
\* in a call made through the public interface: no call ends in a panic;
\* set_baseline hands over 4 data bytes for every baseline, so that its write
\* is 2 + 6 bytes, and set_humidity hands over 2 data bytes for Some and for
\* None, so that its write is 2 + 3 bytes; and each of them, called on an
\* initialized handle, gets as far as its write.
C27_LengthAssertNeverFails ==
    /\ result.tag # "Panic"
    /\ \A k \in DOMAIN calls : calls[k].tag # "Panic"
    /\ \A i \in EventsOf("write") :
          /\ SubSeq(trace[i].bytes, 1, 2) = SetBaselineCode
                => Len(trace[i].bytes) = 8
          /\ SubSeq(trace[i].bytes, 1, 2) = SetHumidityCode
                => Len(trace[i].bytes) = 5
    /\ (LastOp = "set_humidity" /\ pre) =>
          \E i \in EventsOf("write") :
              SubSeq(trace[i].bytes, 1, 2) = SetHumidityCode
    /\ (LastOp = "restore_baseline" /\ result.tag = "Ok") =>
          \E i \in EventsOf("write") :
              SubSeq(trace[i].bytes, 1, 2) = SetBaselineCode

\* C27 witness: set_humidity(None) on an initialized handle wrote its 5 bytes.
C27_Witness ==
    /\ LastOp = "set_humidity"
    /\ arg.kind = "None"
    /\ pre
    /\ result = Ok(Unit)
    /\ Len(trace[1].bytes) = 5

=============================================================================
